---- MODULE Spec2Model ----
(***************************************************************************)
(* SimGUI: the card session (managers/card_manager.py, class CardManager), *)
(* the ADM1 key dialog (dialogs/adm1_dialog.py, class ADM1Dialog) and the  *)
(* batch store (managers/csv_manager.py, class CSVManager).                *)
(*                                                                         *)
(* Strings that the code inspects character by character (the ADM1 key,   *)
(* the field values and names of a record, the lines of a parameter file)  *)
(* are tuples of one-character strings, so len(), str.isdigit(), strip()  *)
(* and partition() are computed and not assumed.  Messages the code only   *)
(* passes on are TLA+ strings.                                             *)
(*                                                                         *)
(* Spec is the card session with the dialog, SpecCsv the batch store under *)
(* its load, add, remove, update and get operations, SpecValidate the      *)
(* validation of a batch.                                                  *)
(***************************************************************************)
EXTENDS Integers, Sequences, FiniteSets, TLC

VARIABLES
    cli_path,           \* CardManager.cli_path: None or a directory
    card_type,          \* CardManager.card_type
    authenticated,      \* CardManager.authenticated
    card_info,          \* CardManager.card_info, a set of <<key, value>> pairs
    detected,           \* history: a detect_card succeeded and no disconnect / failed detect since
    authSinceDisconnect,\* history: an authenticate succeeded since the last disconnect
    last,               \* history: the last CardManager call, its result and the state before it
    dlg_open,           \* the ADM1Dialog window exists (not destroyed)
    remaining_attempts, \* ADM1Dialog.remaining_attempts
    force_auth,         \* ADM1Dialog.force_auth
    entry,              \* text of ADM1Dialog.adm1_entry
    ok_button,          \* state of ADM1Dialog.ok_button
    adm1_value,         \* ADM1Dialog.adm1_value
    decision,           \* history: what the last _on_ok decided, and for which (attempts, force)
    cards,              \* CSVManager.cards: a sequence of records
    columns,            \* CSVManager.columns
    filepath,           \* CSVManager.filepath
    clast,              \* history: the last CSVManager call, its result and the store before it
    seen,               \* history: the record keys and columns met so far, in first-seen order
    added               \* history: an add_card, and whether the record it added was removed next

vars == <<cli_path, card_type, authenticated, card_info, detected, authSinceDisconnect, last,
          dlg_open, remaining_attempts, force_auth, entry, ok_button, adm1_value, decision,
          cards, columns, filepath, clast, seen, added>>

sessionVars == <<cli_path, card_type, authenticated, card_info, detected, authSinceDisconnect, last>>
dialogVars == <<dlg_open, remaining_attempts, force_auth, entry, ok_button, adm1_value, decision>>
storeVars == <<cards, columns, filepath, clast, seen, added>>

----------------------------------------------------------------------------
(* Bounds and input sets *)

\* largest remaining-attempt value handed to the dialog
MaxAttempts == 4

\* smallest remaining-attempt value handed to the dialog is -MinusAttempts
MinusAttempts == 0

AttemptValues == (0 - MinusAttempts)..MaxAttempts

\* most records the store holds before add_card and load_card_parameters_file stop
MaxCards == 2

\* most records of a validated batch
MaxBatch == 3

\* indexes given to get_card, remove_card and update_card
Indexes == (0 - 1)..MaxCards

None == "None"

Digits == {"0", "1", "2", "3", "4", "5", "6", "7", "8", "9"}

KeyEmpty == << >>
Key4 == <<"1", "2", "3", "4">>
Key8 == <<"1", "2", "3", "4", "5", "6", "7", "8">>
Key8Alpha == <<"1", "2", "3", "4", "5", "6", "7", "a">>
Key9 == <<"1", "2", "3", "4", "5", "6", "7", "8", "9">>

\* keys given to authenticate and typed into the dialog
Keys == {KeyEmpty, Key4, Key8, Key8Alpha, Key9}

\* paths given to set_cli_path; os.path.isdir holds of the members of Dirs
Dirs == {"/opt/sysmo-usim-tool", "/home/user/sysmo-usim-tool"}
Paths == Dirs \cup {"/no/such/dir"}

\* what subprocess.run can do once a command line has been built
ToolOutcomes == {"exit0", "nonzero", "timeout", "filenotfound", "exception"}

UNKNOWN == "UNKNOWN"

----------------------------------------------------------------------------
(* CardManager *)

NotFoundMessage == "sysmo-usim-tool not found. Set SYSMO_USIM_TOOL_PATH or place it next to SimGUI."

\* _find_cli_tool: the environment decides; None or the first existing candidate
find_cli_tool == {None, "/opt/sysmo-usim-tool"}

\* _run_cli(script, ...) under the environment's outcome: (success, output),
\* and in `tool' whether and how a process was run
run_cli_timeout_swallowed(script, outcome) ==
    IF cli_path = None
    THEN [ok |-> FALSE, out |-> NotFoundMessage, tool |-> "none"]
    ELSE CASE outcome = "exit0" -> [ok |-> TRUE, out |-> "usage", tool |-> "exit0"]
           [] outcome = "nonzero" -> [ok |-> FALSE, out |-> "error output", tool |-> "nonzero"]
           [] outcome = "timeout" -> [ok |-> TRUE, out |-> "", tool |-> "timeout"]
           [] outcome = "filenotfound" ->
                 [ok |-> FALSE, out |-> "Script not found: " \o script, tool |-> "filenotfound"]
           [] OTHER -> [ok |-> FALSE, out |-> "OSError", tool |-> "exception"]

run_cli(script, outcome) ==
    IF cli_path = None
    THEN [ok |-> FALSE, out |-> NotFoundMessage, tool |-> "none"]
    ELSE CASE outcome = "exit0" -> [ok |-> TRUE, out |-> "usage", tool |-> "exit0"]
           [] outcome = "nonzero" -> [ok |-> FALSE, out |-> "error output", tool |-> "nonzero"]
           [] outcome = "timeout" -> [ok |-> FALSE, out |-> "Command timed out", tool |-> "timeout"]
           [] outcome = "filenotfound" ->
                 [ok |-> FALSE, out |-> "Script not found: " \o script, tool |-> "filenotfound"]
           [] OTHER -> [ok |-> FALSE, out |-> "OSError", tool |-> "exception"]

\* Python's None as a returned mapping, and a returned mapping
NoData == [none |-> TRUE, map |-> {}]
Mapping(m) == [none |-> FALSE, map |-> m]

\* the session state a call starts from
Pre == [authenticated |-> authenticated, card_info |-> card_info,
        card_type |-> card_type, detected |-> detected]

\* the record of a call: its arguments, what it returned, how it used the tool,
\* the tool root it started with, and for authenticate the remaining-attempt
\* value the dialog holds at the call
Call(op, adm1, force, ok, msg, errs, data, tool) ==
    [op |-> op, adm1 |-> adm1, force |-> force, ok |-> ok, msg |-> msg,
     errs |-> errs, data |-> data, tool |-> tool,
     attempts |-> IF op = "authenticate" THEN remaining_attempts ELSE 3,
     num |-> 0, path |-> None, cli |-> cli_path, pre |-> Pre]

\* the value get_remaining_attempts returns
remaining_attempts_value == 3

\* get_remaining_attempts(); the returned number is recorded in last.num
get_remaining_attempts ==
    /\ last' = [Call("get_remaining_attempts", KeyEmpty, FALSE, TRUE, "", << >>, NoData, "none")
                EXCEPT !.num = remaining_attempts_value]
    /\ UNCHANGED <<cli_path, card_type, authenticated, card_info, detected, authSinceDisconnect>>
    /\ UNCHANGED <<dialogVars, storeVars>>

\* set_cli_path(path)
set_cli_path_unchecked(path) ==
    /\ cli_path' = path
    /\ last' = [Call("set_cli_path", KeyEmpty, FALSE, TRUE, "", << >>, NoData, "none")
                EXCEPT !.path = path]
    /\ UNCHANGED <<card_type, authenticated, card_info, detected, authSinceDisconnect>>
    /\ UNCHANGED <<dialogVars, storeVars>>

set_cli_path(path) ==
    /\ cli_path' = IF path \in Dirs THEN path ELSE cli_path
    /\ last' = [Call("set_cli_path", KeyEmpty, FALSE, path \in Dirs, "", << >>, NoData, "none")
                EXCEPT !.path = path]
    /\ UNCHANGED <<card_type, authenticated, card_info, detected, authSinceDisconnect>>
    /\ UNCHANGED <<dialogVars, storeVars>>

\* detect_card()
detect_card_reset_on_success(outcome) ==
    LET r == run_cli("sysmo_isim_sja2.py", outcome) IN
    /\ authenticated' = IF r.ok THEN FALSE ELSE authenticated
    /\ card_info' = {}
    /\ card_type' = UNKNOWN
    /\ detected' = r.ok
    /\ last' = Call("detect_card", KeyEmpty, FALSE, r.ok,
                    IF r.ok THEN "Card reader available (use Authenticate to connect)" ELSE r.out,
                    << >>, NoData, r.tool)
    /\ UNCHANGED <<cli_path, authSinceDisconnect>>
    /\ UNCHANGED <<dialogVars, storeVars>>

detect_card(outcome) ==
    LET r == run_cli("sysmo_isim_sja2.py", outcome) IN
    /\ authenticated' = FALSE
    /\ card_info' = {}
    /\ card_type' = UNKNOWN
    /\ detected' = r.ok
    /\ last' = Call("detect_card", KeyEmpty, FALSE, r.ok,
                    IF r.ok THEN "Card reader available (use Authenticate to connect)" ELSE r.out,
                    << >>, NoData, r.tool)
    /\ UNCHANGED <<cli_path, authSinceDisconnect>>
    /\ UNCHANGED <<dialogVars, storeVars>>

\* the test `not adm1 or len(adm1) != 8' of authenticate
adm1_rejected_short_only(adm1) == Len(adm1) < 8

adm1_rejected(adm1) == Len(adm1) = 0 \/ Len(adm1) # 8

\* authenticate(adm1, force)
authenticate_flag_first(adm1, force) ==
    /\ authenticated' = TRUE
    /\ IF adm1_rejected(adm1)
       THEN /\ last' = Call("authenticate", adm1, force, FALSE,
                            "ADM1 must be exactly 8 characters", << >>, NoData, "none")
            /\ UNCHANGED authSinceDisconnect
       ELSE /\ authSinceDisconnect' = TRUE
            /\ last' = Call("authenticate", adm1, force, TRUE,
                            "Authentication successful", << >>, NoData, "none")
    /\ UNCHANGED <<cli_path, card_type, card_info, detected>>
    /\ UNCHANGED <<dialogVars, storeVars>>

authenticate(adm1, force) ==
    /\ IF adm1_rejected(adm1)
       THEN /\ last' = Call("authenticate", adm1, force, FALSE,
                            "ADM1 must be exactly 8 characters", << >>, NoData, "none")
            /\ UNCHANGED <<authenticated, authSinceDisconnect>>
       ELSE /\ authenticated' = TRUE
            /\ authSinceDisconnect' = TRUE
            /\ last' = Call("authenticate", adm1, force, TRUE,
                            "Authentication successful", << >>, NoData, "none")
    /\ UNCHANGED <<cli_path, card_type, card_info, detected>>
    /\ UNCHANGED <<dialogVars, storeVars>>

\* the value read_card_data returns: None, or the card_info mapping
read_card_data_value_unchecked ==
    IF ~authenticated THEN NoData ELSE Mapping(card_info)

read_card_data_value ==
    IF ~authenticated THEN NoData
    ELSE IF card_info # {} THEN Mapping(card_info) ELSE NoData

\* read_card_data()
read_card_data ==
    /\ last' = Call("read_card_data", KeyEmpty, FALSE, ~read_card_data_value.none, "",
                    << >>, read_card_data_value, "none")
    /\ UNCHANGED <<cli_path, card_type, authenticated, card_info, detected, authSinceDisconnect>>
    /\ UNCHANGED <<dialogVars, storeVars>>

\* program_card(card_data)
program_card_disconnects ==
    /\ last' = IF ~authenticated
               THEN Call("program_card", KeyEmpty, FALSE, FALSE, "Not authenticated",
                         << >>, NoData, "none")
               ELSE Call("program_card", KeyEmpty, FALSE, TRUE,
                         "Card programmed successfully (stub)", << >>, NoData, "none")
    /\ authenticated' = FALSE
    /\ UNCHANGED <<cli_path, card_type, card_info, detected, authSinceDisconnect>>
    /\ UNCHANGED <<dialogVars, storeVars>>

program_card ==
    /\ last' = IF ~authenticated
               THEN Call("program_card", KeyEmpty, FALSE, FALSE, "Not authenticated",
                         << >>, NoData, "none")
               ELSE Call("program_card", KeyEmpty, FALSE, TRUE,
                         "Card programmed successfully (stub)", << >>, NoData, "none")
    /\ UNCHANGED <<cli_path, card_type, authenticated, card_info, detected, authSinceDisconnect>>
    /\ UNCHANGED <<dialogVars, storeVars>>

\* verify_card(expected)
verify_card ==
    /\ last' = IF ~authenticated
               THEN Call("verify_card", KeyEmpty, FALSE, FALSE, "", <<"Not authenticated">>,
                         NoData, "none")
               ELSE Call("verify_card", KeyEmpty, FALSE, TRUE, "", << >>, NoData, "none")
    /\ UNCHANGED <<cli_path, card_type, authenticated, card_info, detected, authSinceDisconnect>>
    /\ UNCHANGED <<dialogVars, storeVars>>

\* the fields disconnect() leaves behind, as a function of the state it starts from
disconnected_keeps_auth(s) ==
    [authenticated |-> s.authenticated, card_info |-> {}, card_type |-> UNKNOWN,
     detected |-> FALSE]

disconnected(s) ==
    [authenticated |-> FALSE, card_info |-> {}, card_type |-> UNKNOWN, detected |-> FALSE]

\* disconnect()
disconnect ==
    /\ authenticated' = disconnected(Pre).authenticated
    /\ card_type' = disconnected(Pre).card_type
    /\ card_info' = disconnected(Pre).card_info
    /\ detected' = disconnected(Pre).detected
    /\ authSinceDisconnect' = FALSE
    /\ last' = Call("disconnect", KeyEmpty, FALSE, TRUE, "", << >>, NoData, "none")
    /\ UNCHANGED cli_path
    /\ UNCHANGED <<dialogVars, storeVars>>

\* the lifecycle state of the session
State ==
    IF authenticated THEN "Authenticated"
    ELSE IF detected THEN "Detected" ELSE "Idle"

----------------------------------------------------------------------------
(* ADM1Dialog *)

\* str.isdigit
isdigit(value) == Len(value) > 0 /\ \A i \in 1..Len(value) : value[i] \in Digits

\* the state _validate_input gives the Authenticate button for an entry text
validated_button(value) ==
    IF Len(value) = 0 THEN "disabled"
    ELSE IF ~isdigit(value) THEN "disabled"
    ELSE IF Len(value) < 8 THEN "disabled"
    ELSE IF Len(value) = 8 THEN "normal"
    ELSE "disabled"

\* the attempt policy of _on_ok for (remaining attempts, force checkbox)
mayAttempt(remainingAttempts, forceFlag) ==
    IF remainingAttempts < 3 /\ ~forceFlag THEN "RequiresConfirmation" ELSE "Allowed"

\* ADM1Dialog(parent, remaining_attempts)
ADM1Dialog(r) ==
    /\ ~dlg_open
    /\ dlg_open' = TRUE
    /\ remaining_attempts' = r
    /\ adm1_value' = None
    /\ force_auth' = FALSE
    /\ entry' = KeyEmpty
    /\ ok_button' = "disabled"
    /\ decision' = [r |-> r, force |-> FALSE, result |-> "none"]
    /\ UNCHANGED <<sessionVars, storeVars>>

\* the user edits the entry; <KeyRelease> runs _validate_input
KeyRelease(value) ==
    /\ dlg_open
    /\ entry' = value
    /\ ok_button' = validated_button(value)
    /\ UNCHANGED <<dlg_open, remaining_attempts, force_auth, adm1_value, decision>>
    /\ UNCHANGED <<sessionVars, storeVars>>

\* the force checkbox, created only when remaining_attempts < 3
ToggleForce ==
    /\ dlg_open
    /\ remaining_attempts < 3
    /\ force_auth' = ~force_auth
    /\ UNCHANGED <<dlg_open, remaining_attempts, entry, ok_button, adm1_value, decision>>
    /\ UNCHANGED <<sessionVars, storeVars>>

\* _on_ok(), by the button when it is enabled or by <Return> in the entry;
\* answer is the user's reply to the confirmation box when one is shown
on_ok(answer) ==
    /\ dlg_open
    /\ IF Len(entry) # 8 \/ ~isdigit(entry)
       THEN /\ decision' = [r |-> remaining_attempts, force |-> force_auth,
                            result |-> "InvalidInput"]
            /\ UNCHANGED <<dlg_open, adm1_value>>
       ELSE /\ decision' = [r |-> remaining_attempts, force |-> force_auth,
                            result |-> mayAttempt(remaining_attempts, force_auth)]
            /\ IF mayAttempt(remaining_attempts, force_auth) = "RequiresConfirmation" /\ ~answer
               THEN UNCHANGED <<dlg_open, adm1_value>>
               ELSE /\ adm1_value' = entry
                    /\ dlg_open' = FALSE
    /\ UNCHANGED <<remaining_attempts, force_auth, entry, ok_button>>
    /\ UNCHANGED <<sessionVars, storeVars>>

\* _on_cancel()
on_cancel ==
    /\ dlg_open
    /\ adm1_value' = None
    /\ dlg_open' = FALSE
    /\ UNCHANGED <<remaining_attempts, force_auth, entry, ok_button, decision>>
    /\ UNCHANGED <<sessionVars, storeVars>>

----------------------------------------------------------------------------
(* CSVManager: the batch store *)

\* field names, as text
K_ICCID == <<"I", "C", "C", "I", "D">>
K_IMSI == <<"I", "M", "S", "I">>
K_Ki == <<"K", "i">>
K_OPc == <<"O", "P", "c">>
K_ADM1 == <<"A", "D", "M", "1">>
K_MNC_LENGTH == <<"M", "N", "C", "_", "L", "E", "N", "G", "T", "H">>
K_ALGO_2G == <<"A", "L", "G", "O", "_", "2", "G">>
K_ALGO_3G == <<"A", "L", "G", "O", "_", "3", "G">>
K_ALGO_4G5G == <<"A", "L", "G", "O", "_", "4", "G", "5", "G">>
K_USE_OPC == <<"U", "S", "E", "_", "O", "P", "C">>
K_HPLMN == <<"H", "P", "L", "M", "N">>
K_EXTRA == <<"E", "X", "T", "R", "A">>
K_NOTE == <<"N", "O", "T", "E">>

\* STANDARD_COLUMNS
STANDARD_COLUMNS ==
    <<K_ICCID, K_IMSI, K_Ki, K_OPc, K_ADM1, K_MNC_LENGTH, K_ALGO_2G, K_ALGO_3G,
      K_ALGO_4G5G, K_USE_OPC, K_HPLMN>>

\* the empty string
Empty == << >>

\* field values used by the store operations
V_imsi == <<"0", "0", "1", "0", "1", "0", "0", "0", "0", "0", "0", "0", "0", "0", "1">>
V_short == <<"0", "0", "1", "0", "1">>
V_x == <<"x">>

\* A record is a Python dict: a sequence of <<key, value>> pairs with distinct
\* keys, in insertion order.
DictKeys(d) == [i \in 1..Len(d) |-> d[i][1]]

HasKey(d, k) == \E i \in 1..Len(d) : d[i][1] = k

\* d.get(k, default)
DictGet(d, k, default) ==
    IF HasKey(d, k) THEN d[CHOOSE i \in 1..Len(d) : d[i][1] = k][2] ELSE default

\* d[k] = v
DictSet(d, k, v) ==
    IF HasKey(d, k)
    THEN [i \in 1..Len(d) |-> IF d[i][1] = k THEN <<k, v>> ELSE d[i]]
    ELSE Append(d, <<k, v>>)

Range(seq) == {seq[i] : i \in 1..Len(seq)}

\* the store a call starts from
StorePre == [cards |-> cards, columns |-> columns, filepath |-> filepath]

\* the record of a store call: its arguments and what it returned
StoreCall(op, given, index, ok, none, card, errors) ==
    [op |-> op, given |-> given, index |-> index, ok |-> ok, none |-> none,
     card |-> card, errors |-> errors, path |-> None, pre |-> StorePre]

\* keys appended to a first-seen list, each once, in the order met
RECURSIVE Merge(_, _)
Merge(list, keys) ==
    IF keys = << >> THEN list
    ELSE Merge(IF Head(keys) \in Range(list) THEN list ELSE Append(list, Head(keys)),
               Tail(keys))

NoAdd == [phase |-> "none", cards |-> << >>, index |-> 0]

\* CSV files given to load_csv.  kind: "missing" (open raises), "empty" (no
\* header line, fieldnames is None), "badrow" (the header reads, then the
\* reader raises on a later line), "ok".  Rows have one value per header field.
CsvFiles ==
    { [path |-> "missing.csv", kind |-> "missing", fieldnames |-> << >>, rows |-> << >>],
      [path |-> "empty.csv", kind |-> "empty", fieldnames |-> << >>, rows |-> << >>],
      [path |-> "broken.csv", kind |-> "badrow", fieldnames |-> <<K_IMSI, K_NOTE>>,
       rows |-> << <<V_imsi, V_x>> >>],
      [path |-> "batch.csv", kind |-> "ok", fieldnames |-> <<K_IMSI, K_ADM1>>,
       rows |-> << <<V_imsi, Empty>>, <<V_short, V_x>> >>] }

\* dict(row) of csv.DictReader for a row of values under the header
row_dict(fieldnames, row) == [i \in 1..Len(fieldnames) |-> <<fieldnames[i], row[i]>>]

\* load_csv(filepath)
load_csv(file) ==
    /\ CASE file.kind = "missing" -> UNCHANGED <<columns, cards, filepath>>
         [] file.kind = "empty" -> UNCHANGED <<columns, cards, filepath>>
         [] file.kind = "badrow" ->
              /\ columns' = file.fieldnames
              /\ UNCHANGED <<cards, filepath>>
         [] OTHER ->
              /\ columns' = file.fieldnames
              /\ cards' = [i \in 1..Len(file.rows) |-> row_dict(file.fieldnames, file.rows[i])]
              /\ filepath' = file.path
    /\ clast' = [StoreCall("load_csv", FALSE, 0, file.kind = "ok", FALSE, << >>, << >>)
                 EXCEPT !.path = file.path]
    /\ seen' = IF file.kind \in {"ok", "badrow"} THEN Merge(seen, file.fieldnames) ELSE seen
    /\ added' = NoAdd
    /\ UNCHANGED <<sessionVars, dialogVars>>

\* str.strip, str.startswith('#'), '=' in line, str.partition('=')
IsSpace(c) == c \in {" ", "\t", "\n", "\r"}

RECURSIVE lstrip(_)
lstrip(t) == IF t = << >> \/ ~IsSpace(Head(t)) THEN t ELSE lstrip(Tail(t))

RECURSIVE rstrip(_)
rstrip(t) ==
    IF t = << >> \/ ~IsSpace(t[Len(t)]) THEN t ELSE rstrip(SubSeq(t, 1, Len(t) - 1))

strip(t) == rstrip(lstrip(t))

has_equals(t) == \E i \in 1..Len(t) : t[i] = "="

first_equals(t) == CHOOSE i \in 1..Len(t) : t[i] = "=" /\ \A j \in 1..(i - 1) : t[j] # "="

\* the loop of load_card_parameters_file over the lines of the file
RECURSIVE parse_parameters(_, _)
parse_parameters(lines, card_data) ==
    IF lines = << >> THEN card_data
    ELSE LET line == strip(Head(lines)) IN
         IF line = << >> \/ line[1] = "#"
         THEN parse_parameters(Tail(lines), card_data)
         ELSE IF has_equals(line)
              THEN LET i == first_equals(line) IN
                   parse_parameters(Tail(lines),
                       DictSet(card_data, strip(SubSeq(line, 1, i - 1)),
                               strip(SubSeq(line, i + 1, Len(line)))))
              ELSE parse_parameters(Tail(lines), card_data)

\* parameter files given to load_card_parameters_file
ParameterFiles ==
    { [kind |-> "missing", lines |-> << >>],
      [kind |-> "ok", lines |-> << <<"#", " ", "c", "a", "r", "d", " ", "p", "a", "r", "a", "m", "e", "t", "e", "r", "s">>,
                                   << >>,
                                   <<"I", "M", "S", "I", "=", "0", "0", "1", "0", "1", "0", "0", "0", "0", "0", "0", "0", "0", "0", "1">>,
                                   <<" ", "E", "X", "T", "R", "A", " ", "=", " ", "x", " ">>,
                                   <<"n", "o", "v", "a", "l", "u", "e">> >>],
      [kind |-> "ok", lines |-> << <<"#", " ", "c", "a", "r", "d", " ", "p", "a", "r", "a", "m", "e", "t", "e", "r", "s">>, <<" ", "\n">> >>] }

\* load_card_parameters_file(filepath)
load_card_parameters_file(file) ==
    LET card_data == parse_parameters(file.lines, << >>)
        loaded == file.kind = "ok" /\ card_data # << >>
    IN
    /\ cards' = IF loaded THEN Append(cards, card_data) ELSE cards
    /\ columns' = IF loaded THEN Merge(columns, DictKeys(card_data)) ELSE columns
    /\ clast' = StoreCall("load_card_parameters_file", FALSE, 0, loaded, FALSE, << >>, << >>)
    /\ seen' = IF loaded THEN Merge(seen, DictKeys(card_data)) ELSE seen
    /\ added' = NoAdd
    /\ UNCHANGED filepath
    /\ UNCHANGED <<sessionVars, dialogVars>>

\* the test `0 <= index < len(self.cards)'
in_range_no_lower_bound(index) == index < Len(cards)

in_range(index) == 0 <= index /\ index < Len(cards)

\* the position list[index] of Python names, from 1; a negative index counts
\* from the end; 0 when there is no such element (the access raises)
position(list, index) ==
    LET j == IF index < 0 THEN index + Len(list) ELSE index IN
    IF j < 0 \/ j >= Len(list) THEN 0 ELSE j + 1

\* get_card(index)
get_card(index) ==
    /\ clast' = IF in_range(index)
                THEN StoreCall("get_card", FALSE, index, TRUE, FALSE,
                               IF position(cards, index) = 0 THEN << >>
                               ELSE cards[position(cards, index)], << >>)
                ELSE StoreCall("get_card", FALSE, index, FALSE, TRUE, << >>, << >>)
    /\ seen' = seen
    /\ added' = NoAdd
    /\ UNCHANGED <<cards, columns, filepath>>
    /\ UNCHANGED <<sessionVars, dialogVars>>

\* the record add_card makes when it is given none
empty_card(cols) == [i \in 1..Len(cols) |-> <<cols[i], Empty>>]

\* records given to add_card
CardInputs == { << <<K_IMSI, V_imsi>> >>, << <<K_EXTRA, V_x>>, <<K_IMSI, V_short>> >> }

\* add_card(card_data); given is FALSE for card_data = None
add_card(given, card_data) ==
    LET record == IF given THEN card_data ELSE empty_card(columns) IN
    /\ cards' = Append(cards, record)
    /\ clast' = StoreCall("add_card", given, Len(cards), TRUE, FALSE, record, << >>)
    /\ seen' = Merge(seen, DictKeys(record))
    /\ added' = [phase |-> "added", cards |-> cards, index |-> Len(cards)]
    /\ UNCHANGED <<columns, filepath>>
    /\ UNCHANGED <<sessionVars, dialogVars>>

\* list.pop(index) of Python: the list that is left; a negative index counts
\* from the end, an index with no element raises and leaves the list as it was
pop_previous(list, index) ==
    LET p == position(list, index - 1) IN
    IF p = 0 THEN list ELSE SubSeq(list, 1, p - 1) \o SubSeq(list, p + 1, Len(list))

pop(list, index) ==
    LET p == position(list, index) IN
    IF p = 0 THEN list ELSE SubSeq(list, 1, p - 1) \o SubSeq(list, p + 1, Len(list))

\* remove_card(index)
remove_card(index) ==
    /\ cards' = IF in_range(index) THEN pop(cards, index) ELSE cards
    /\ clast' = StoreCall("remove_card", FALSE, index, in_range(index), FALSE, << >>, << >>)
    /\ seen' = seen
    /\ added' = IF added.phase = "added" /\ index = added.index
                THEN [added EXCEPT !.phase = "removed"]
                ELSE NoAdd
    /\ UNCHANGED <<columns, filepath>>
    /\ UNCHANGED <<sessionVars, dialogVars>>

\* (key, value) pairs given to update_card
Updates == { <<K_EXTRA, V_x>> }

\* update_card(index, key, value)
update_card(index, key, value) ==
    /\ cards' = IF in_range(index) /\ position(cards, index) # 0
                THEN [cards EXCEPT ![position(cards, index)] =
                                       DictSet(cards[position(cards, index)], key, value)]
                ELSE cards
    /\ clast' = StoreCall("update_card", FALSE, index, in_range(index), FALSE, << >>, << >>)
    /\ seen' = IF in_range(index) THEN Merge(seen, <<key>>) ELSE seen
    /\ added' = NoAdd
    /\ UNCHANGED <<columns, filepath>>
    /\ UNCHANGED <<sessionVars, dialogVars>>

\* the store after CSVManager.__init__
InitStore ==
    /\ cards = << >>
    /\ columns = STANDARD_COLUMNS
    /\ filepath = None
    /\ clast = [op |-> "init", given |-> FALSE, index |-> 0, ok |-> TRUE, none |-> FALSE,
                card |-> << >>, errors |-> << >>, path |-> None,
                pre |-> [cards |-> << >>, columns |-> STANDARD_COLUMNS, filepath |-> None]]
    /\ seen = STANDARD_COLUMNS
    /\ added = NoAdd


----------------------------------------------------------------------------
(* Specification *)

InitSession ==
    /\ cli_path \in find_cli_tool
    /\ card_type = UNKNOWN
    /\ authenticated = FALSE
    /\ card_info = {}
    /\ detected = FALSE
    /\ authSinceDisconnect = FALSE
    /\ last = [op |-> "init", adm1 |-> KeyEmpty, force |-> FALSE, ok |-> TRUE, msg |-> "",
               errs |-> << >>, data |-> NoData, tool |-> "none", attempts |-> 3, num |-> 0,
               path |-> None, cli |-> None,
               pre |-> [authenticated |-> FALSE, card_info |-> {}, card_type |-> UNKNOWN,
                        detected |-> FALSE]]
    /\ dlg_open = FALSE
    /\ remaining_attempts = 3
    /\ force_auth = FALSE
    /\ entry = KeyEmpty
    /\ ok_button = "disabled"
    /\ adm1_value = None
    /\ decision = [r |-> 3, force |-> FALSE, result |-> "none"]

Init == InitSession /\ InitStore

Next ==
    \/ \E path \in Paths : set_cli_path(path)
    \/ \E outcome \in ToolOutcomes : detect_card(outcome)
    \/ \E adm1 \in Keys, force \in BOOLEAN : authenticate(adm1, force)
    \/ read_card_data
    \/ program_card
    \/ verify_card
    \/ disconnect
    \/ get_remaining_attempts
    \/ \E r \in AttemptValues : ADM1Dialog(r)
    \/ \E value \in Keys : KeyRelease(value)
    \/ ToggleForce
    \/ \E answer \in BOOLEAN : on_ok(answer)
    \/ on_cancel

Spec == Init /\ [][Next]_vars

\* the batch store on its own: a CSVManager next to a session nobody uses
InitCsv == Init /\ cli_path = None

NextCsv ==
    \/ \E card_data \in CardInputs : Len(cards) < MaxCards /\ add_card(TRUE, card_data)
    \/ Len(cards) < MaxCards /\ add_card(FALSE, << >>)
    \/ \E file \in CsvFiles : load_csv(file)
    \/ \E file \in ParameterFiles : Len(cards) < MaxCards /\ load_card_parameters_file(file)
    \/ \E index \in Indexes : get_card(index)
    \/ \E index \in Indexes : remove_card(index)
    \/ \E index \in Indexes, u \in Updates : update_card(index, u[1], u[2])

SpecCsv == InitCsv /\ [][NextCsv]_vars

TypeOK ==
    /\ cli_path \in {None} \cup Dirs
    /\ authenticated \in BOOLEAN
    /\ detected \in BOOLEAN
    /\ dlg_open \in BOOLEAN
    /\ remaining_attempts \in AttemptValues
    /\ entry \in Keys

----------------------------------------------------------------------------
(* CSVManager: validation *)

\* field values of the validated batches
IMSI_5 == <<"0", "0", "1", "0", "1">>
IMSI_6 == <<"0", "0", "1", "0", "1", "0">>
IMSI_15 == <<"0", "0", "1", "0", "1", "0", "0", "0", "0", "0", "0", "0", "0", "0", "1">>
IMSI_16 == <<"0", "0", "1", "0", "1", "0", "0", "0", "0", "0", "0", "0", "0", "0", "1", "2">>
IMSI_alpha == <<"0", "0", "1", "0", "1", "a">>
ICCID_9 == <<"8", "9", "4", "9", "0", "0", "0", "0", "0">>
ICCID_10 == <<"8", "9", "4", "9", "0", "0", "0", "0", "0", "0">>
ICCID_20 == <<"8", "9", "4", "9", "0", "0", "0", "0", "0", "0", "0", "0", "0", "0", "0", "0", "0", "0", "1", "2">>
ICCID_21 == <<"8", "9", "4", "9", "0", "0", "0", "0", "0", "0", "0", "0", "0", "0", "0", "0", "0", "0", "1", "2", "3">>
ICCID_alpha == <<"8", "9", "4", "9", "0", "0", "0", "0", "x", "0">>
HEX_32_lower == <<"0", "0", "0", "1", "0", "2", "0", "3", "0", "4", "0", "5", "0", "6", "0", "7", "0", "8", "0", "9", "0", "a", "0", "b", "0", "c", "0", "d", "0", "e", "0", "f">>
HEX_32_mixed == <<"0", "0", "1", "1", "2", "2", "3", "3", "4", "4", "5", "5", "6", "6", "7", "7", "8", "8", "9", "9", "A", "A", "B", "B", "c", "c", "d", "d", "E", "E", "f", "f">>
HEX_31 == <<"0", "0", "0", "1", "0", "2", "0", "3", "0", "4", "0", "5", "0", "6", "0", "7", "0", "8", "0", "9", "0", "a", "0", "b", "0", "c", "0", "d", "0", "e", "0">>
HEX_33 == <<"0", "0", "0", "1", "0", "2", "0", "3", "0", "4", "0", "5", "0", "6", "0", "7", "0", "8", "0", "9", "0", "a", "0", "b", "0", "c", "0", "d", "0", "e", "0", "f", "0">>
HEX_32_g == <<"0", "0", "0", "1", "0", "2", "0", "3", "0", "4", "0", "5", "0", "6", "0", "7", "0", "8", "0", "9", "0", "a", "0", "b", "0", "c", "0", "d", "0", "e", "0", "g">>
HEX_32_spaced == <<"0", "0", "0", "1", "0", "2", "0", "3", " ", "0", "4", "0", "5", "0", "6", "0", "7", " ", "0", "8", "0", "9", "0", "a", "0", "b", " ", "0", "c", "0", "d", "0", "e", "0", "f">>
SPACES == <<" ", " ">>
ADM1_7 == <<"1", "2", "3", "4", "5", "6", "7">>
ADM1_8 == <<"1", "2", "3", "4", "5", "6", "7", "8">>
ADM1_8_alpha == <<"a", "b", "c", "d", "e", "f", "g", "h">>
ADM1_9 == <<"1", "2", "3", "4", "5", "6", "7", "8", "9">>

\* the characters of '0123456789abcdefABCDEF'
HexChars ==
    {"0", "1", "2", "3", "4", "5", "6", "7", "8", "9",
     "a", "b", "c", "d", "e", "f", "A", "B", "C", "D", "E", "F"}

\* str.replace(' ', '')
RECURSIVE remove_spaces(_)
remove_spaces(t) ==
    IF t = << >> THEN << >>
    ELSE IF Head(t) = " " THEN remove_spaces(Tail(t))
         ELSE <<Head(t)>> \o remove_spaces(Tail(t))

\* the five tests of validate_all on one record
imsi_flagged_from_5(card) ==
    LET imsi == DictGet(card, K_IMSI, Empty) IN
    imsi # Empty /\ (~isdigit(imsi) \/ ~(5 <= Len(imsi) /\ Len(imsi) <= 15))

imsi_flagged(card) ==
    LET imsi == DictGet(card, K_IMSI, Empty) IN
    imsi # Empty /\ (~isdigit(imsi) \/ ~(6 <= Len(imsi) /\ Len(imsi) <= 15))

iccid_flagged(card) ==
    LET iccid == DictGet(card, K_ICCID, Empty) IN
    iccid # Empty /\ (~isdigit(iccid) \/ ~(10 <= Len(iccid) /\ Len(iccid) <= 20))

hex_flagged(card, key) ==
    LET v == DictGet(card, key, Empty)
        clean == remove_spaces(v)
    IN v # Empty /\ (Len(clean) # 32 \/ ~(\A i \in 1..Len(clean) : clean[i] \in HexChars))

adm1_flagged(card) ==
    LET adm1 == DictGet(card, K_ADM1, Empty) IN
    adm1 # Empty /\ Len(adm1) # 8

\* an entry f"Row {row}: {text}" of the error list
Defect(row, text) == [row |-> row, text |-> text]

\* the entries validate_all appends for one record, in the order of its tests
card_errors_first_only(card, row) ==
    IF imsi_flagged(card) THEN <<Defect(row, "IMSI must be 6-15 digits")>>
    ELSE IF iccid_flagged(card) THEN <<Defect(row, "ICCID must be 10-20 digits")>>
    ELSE IF hex_flagged(card, K_Ki) THEN <<Defect(row, "Ki must be 32 hex chars")>>
    ELSE IF hex_flagged(card, K_OPc) THEN <<Defect(row, "OPc must be 32 hex chars")>>
    ELSE IF adm1_flagged(card) THEN <<Defect(row, "ADM1 must be 8 chars")>>
    ELSE << >>

card_errors(card, row) ==
    (IF imsi_flagged(card) THEN <<Defect(row, "IMSI must be 6-15 digits")>> ELSE << >>)
    \o (IF iccid_flagged(card) THEN <<Defect(row, "ICCID must be 10-20 digits")>> ELSE << >>)
    \o (IF hex_flagged(card, K_Ki) THEN <<Defect(row, "Ki must be 32 hex chars")>> ELSE << >>)
    \o (IF hex_flagged(card, K_OPc) THEN <<Defect(row, "OPc must be 32 hex chars")>> ELSE << >>)
    \o (IF adm1_flagged(card) THEN <<Defect(row, "ADM1 must be 8 chars")>> ELSE << >>)

\* the loop of validate_all over enumerate(cards), from the record at i (0-based)
RECURSIVE errors_from(_, _)
errors_from(list, i) ==
    IF i >= Len(list) THEN << >>
    ELSE card_errors(list[i + 1], i + 1) \o errors_from(list, i + 1)

\* validate_all()
validate_all ==
    /\ clast' = StoreCall("validate_all", FALSE, 0, TRUE, FALSE, << >>, errors_from(cards, 0))
    /\ added' = NoAdd
    /\ UNCHANGED <<cards, columns, filepath, seen>>
    /\ UNCHANGED <<sessionVars, dialogVars>>

\* validate_card(index): validate_all of a new manager holding the one record
validate_card(index) ==
    /\ clast' = IF in_range(index)
                THEN StoreCall("validate_card", FALSE, index, TRUE, FALSE, << >>,
                               errors_from(<<cards[index + 1]>>, 0))
                ELSE StoreCall("validate_card", FALSE, index, FALSE, FALSE, << >>,
                               <<Defect(index, "Invalid index")>>)
    /\ added' = NoAdd
    /\ UNCHANGED <<cards, columns, filepath, seen>>
    /\ UNCHANGED <<sessionVars, dialogVars>>

\* records of the validated batches
RecordClean ==
    << <<K_ICCID, ICCID_20>>, <<K_IMSI, IMSI_15>>, <<K_Ki, HEX_32_lower>>,
       <<K_OPc, HEX_32_mixed>>, <<K_ADM1, ADM1_8>> >>
RecordShortKi == << <<K_IMSI, IMSI_6>>, <<K_Ki, HEX_31>>, <<K_OPc, HEX_32_spaced>> >>
RecordAllBad ==
    << <<K_ICCID, ICCID_21>>, <<K_IMSI, IMSI_5>>, <<K_Ki, HEX_32_g>>,
       <<K_OPc, HEX_33>>, <<K_ADM1, ADM1_7>> >>
RecordBlank == << <<K_ICCID, Empty>>, <<K_IMSI, Empty>>, <<K_Ki, Empty>>, <<K_ADM1, Empty>> >>
RecordMixed ==
    << <<K_IMSI, IMSI_alpha>>, <<K_ICCID, ICCID_9>>, <<K_Ki, HEX_32_spaced>>,
       <<K_OPc, SPACES>>, <<K_ADM1, ADM1_9>> >>
RecordLong ==
    << <<K_IMSI, IMSI_16>>, <<K_ICCID, ICCID_10>>, <<K_ADM1, ADM1_8_alpha>>,
       <<K_EXTRA, V_x>> >>
RecordAlphaIccid == << <<K_ICCID, ICCID_alpha>>, <<K_Ki, HEX_32_mixed>>, <<K_OPc, HEX_31>> >>

TestRecords ==
    {RecordClean, RecordShortKi, RecordAllBad, RecordBlank, RecordMixed, RecordLong,
     RecordAlphaIccid, << >>}

\* batches of at most n records
Batches(n) == UNION {[1..k -> TestRecords] : k \in 0..n}

\* a store holding a batch, as after loading it
InitValidate ==
    /\ InitSession
    /\ cli_path = None
    /\ cards \in Batches(MaxBatch)
    /\ columns = STANDARD_COLUMNS
    /\ filepath = None
    /\ clast = [op |-> "init", given |-> FALSE, index |-> 0, ok |-> TRUE, none |-> FALSE,
                card |-> << >>, errors |-> << >>, path |-> None,
                pre |-> [cards |-> cards, columns |-> STANDARD_COLUMNS, filepath |-> None]]
    /\ seen = STANDARD_COLUMNS
    /\ added = NoAdd

NextValidate ==
    \/ validate_all
    \/ \E index \in (0 - 1)..MaxBatch : validate_card(index)

SpecValidate == InitValidate /\ [][NextValidate]_vars

----------------------------------------------------------------------------
(* Properties of the card session and of the attempt policy *)

ValidKeyCall == last.op = "authenticate" /\ Len(last.adm1) = 8

\* C1: authenticate is valid only from Detected or Authenticated: a call with
\* an 8-character key made while the session is Idle (no successful detect_card
\* since creation or the last disconnect) does not set the authenticated flag.
C1_AuthenticateNeedsDetect ==
    (ValidKeyCall /\ ~last.pre.detected /\ ~last.pre.authenticated) => ~authenticated

\* C2: lockout: an authenticate call with an 8-character key made while the
\* remaining-attempt counter is <= 0 fails with CardLocked for either value of
\* force, runs no tool call and leaves the authenticated flag false.
C2_LockedOut ==
    (ValidKeyCall /\ last.attempts <= 0) =>
        /\ ~last.ok
        /\ last.msg = "CardLocked"
        /\ last.tool = "none"
        /\ ~authenticated

\* C3: with 0 < remaining attempts < 3 and force false, authenticate with an
\* 8-character key fails with ConfirmationRequired and does not set the
\* authenticated flag; the attempt proceeds only when re-invoked with force.
C3_ConfirmationRequired ==
    (ValidKeyCall /\ last.attempts > 0 /\ last.attempts < 3 /\ ~last.force) =>
        /\ ~last.ok
        /\ last.msg = "ConfirmationRequired"
        /\ authenticated = last.pre.authenticated

\* the decision table of the attempt guard as the specification words it
GuardTable(remainingAttempts, forceFlag) ==
    IF remainingAttempts >= 3 THEN "Allowed"
    ELSE IF remainingAttempts > 0
         THEN (IF forceFlag THEN "Allowed" ELSE "RequiresConfirmation")
         ELSE "Blocked"

\* C4: the attempt-guard decision is the total function of (remainingAttempts,
\* forceFlag) given by the table: Allowed from 3 up, RequiresConfirmation for
\* 1..2 without force, Allowed for 1..2 with force, Blocked at 0 and below.
C4_GuardTable ==
    decision.result \in {"Allowed", "RequiresConfirmation", "Blocked"} =>
        decision.result = GuardTable(decision.r, decision.force)

C6_InvalidKeyRejected ==
    (last.op = "authenticate" /\ Len(last.adm1) # 8) =>
        /\ ~last.ok
        /\ last.msg = "ADM1 must be exactly 8 characters"
        /\ last.tool = "none"
        /\ authenticated = last.pre.authenticated
        /\ card_info = last.pre.card_info
        /\ card_type = last.pre.card_type

C6_Witness ==
    /\ last.op = "authenticate"
    /\ Len(last.adm1) = 9
    /\ ~last.pre.authenticated
    /\ last.pre.detected

\* what program_card, verify_card and read_card_data return when not authenticated
NotAuthenticatedResult ==
    /\ ~last.ok
    /\ last.op = "program_card" => last.msg = "Not authenticated"
    /\ last.op = "verify_card" => last.errs = <<"Not authenticated">>
    /\ last.op = "read_card_data" => last.data = NoData

GatedCall == last.op \in {"read_card_data", "program_card", "verify_card"}

\* C7 as worded: called while not authenticated, read_card_data, program_card
\* and verify_card return their not-authenticated result; called while
\* authenticated, read_card_data returns the cached card identity mapping.
C7_ReadReturnsMapping ==
    /\ (GatedCall /\ ~last.pre.authenticated) => NotAuthenticatedResult
    /\ (last.op = "read_card_data" /\ last.pre.authenticated) =>
           last.data = Mapping(card_info)

\* C7 amended: called while not authenticated, the three calls return their
\* not-authenticated result; called while authenticated, read_card_data
\* returns the cached card identity mapping when it is non-empty and None
\* when it is empty.
C7_ReadReturnsMappingOrNone ==
    /\ (GatedCall /\ ~last.pre.authenticated) => NotAuthenticatedResult
    /\ (last.op = "read_card_data" /\ last.pre.authenticated) =>
           last.data = IF card_info = {} THEN NoData ELSE Mapping(card_info)

C7_Witness ==
    /\ last.op = "read_card_data"
    /\ last.pre.authenticated

\* the message the invoker gives for each way a probe can fail
InvokerMessage(tool) ==
    CASE tool = "none" -> NotFoundMessage
      [] tool = "timeout" -> "Command timed out"
      [] tool = "filenotfound" -> "Script not found: sysmo_isim_sja2.py"
      [] tool = "nonzero" -> "error output"
      [] OTHER -> "OSError"

\* C8: after detect_card, whatever the state before and the probe's outcome,
\* the authenticated flag is false and the card identity empty; a failed probe
\* returns failure with the invoker's message and leaves the session Idle, and
\* the session is Detected only after a successful probe.
C8_DetectResets ==
    last.op = "detect_card" =>
        /\ ~authenticated
        /\ card_info = {}
        /\ last.tool # "exit0" =>
               (~last.ok /\ last.msg = InvokerMessage(last.tool) /\ State = "Idle")
        /\ State = "Detected" <=> (last.ok /\ last.tool = "exit0")

C8_Witness ==
    /\ last.op = "detect_card"
    /\ last.pre.authenticated
    /\ last.tool = "filenotfound"

\* C9 as worded: a call whose tool run times out fails with output "Command
\* timed out" and leaves the authenticated flag, the card identity and the
\* card type as they were before the call.
C9_TimeoutKeepsState ==
    last.tool = "timeout" =>
        /\ ~last.ok
        /\ last.msg = "Command timed out"
        /\ authenticated = last.pre.authenticated
        /\ card_info = last.pre.card_info
        /\ card_type = last.pre.card_type

\* C9 amended: a call whose tool run times out fails with output "Command
\* timed out"; the call is a detect_card, which has reset the session before
\* the probe, so afterwards the authenticated flag is false, the card identity
\* empty and the card type unknown, also when the call came from Authenticated.
C9_TimeoutResetsSession ==
    last.tool = "timeout" =>
        /\ last.op = "detect_card"
        /\ ~last.ok
        /\ last.msg = "Command timed out"
        /\ ~authenticated
        /\ card_info = {}
        /\ card_type = UNKNOWN
        /\ State = "Idle"

C9_Witness ==
    /\ last.tool = "timeout"
    /\ last.pre.authenticated

\* C10: disconnect clears the authenticated flag, the card identity and the
\* card type from any state (the session is Idle); a second disconnect would
\* change nothing; and until an authenticate succeeds again the session is not
\* authenticated and program_card and verify_card fail as not authenticated.
C10_DisconnectClears ==
    /\ last.op = "disconnect" =>
           /\ ~authenticated
           /\ card_info = {}
           /\ card_type = UNKNOWN
           /\ State = "Idle"
           /\ disconnected(Pre) = Pre
    /\ ~authSinceDisconnect =>
           /\ ~authenticated
           /\ last.op \in {"program_card", "verify_card"} => NotAuthenticatedResult

C10_Witness ==
    /\ last.op = "disconnect"
    /\ last.pre.authenticated
    /\ last.pre.detected

----------------------------------------------------------------------------
(* Properties of the tool root, of program_card and verify_card, and of the
   batch store *)

\* C11: with the tool root unset, a tool invocation fails with success false
\* and the guidance message and runs no process; set_cli_path changes the tool
\* root only when given an existing directory and otherwise leaves it as it was.
C11_ToolRoot ==
    /\ (last.op = "detect_card" /\ last.cli = None) =>
           /\ ~last.ok
           /\ last.msg = NotFoundMessage
           /\ last.tool = "none"
    /\ last.op = "set_cli_path" =>
           /\ last.ok <=> last.path \in Dirs
           /\ cli_path = IF last.path \in Dirs THEN last.path ELSE last.cli

C11_Witness ==
    /\ last.op = "set_cli_path"
    /\ last.path \notin Dirs
    /\ last.cli = None
    /\ last.pre.authenticated

\* C17: program_card and verify_card leave the session state alone: after a
\* call the authenticated flag, the card identity and the card type are what
\* they were before it, so a call made from Authenticated ends in Authenticated.
C17_ProgramVerifyKeepSession ==
    last.op \in {"program_card", "verify_card"} =>
        /\ authenticated = last.pre.authenticated
        /\ card_info = last.pre.card_info
        /\ card_type = last.pre.card_type
        /\ last.pre.authenticated => (last.ok /\ State = "Authenticated")

C17_Witness ==
    /\ last.op = "program_card"
    /\ last.pre.authenticated
    /\ last.pre.detected

\* position of a key in a list of distinct keys
IndexOf(list, k) == CHOOSE i \in 1..Len(list) : list[i] = k

\* C12: the column list holds every column it ever held and every key of every
\* record ever loaded or added, in first-seen order; no operation removes one.
C12_ColumnsKeepEveryKey ==
    /\ \A i \in 1..Len(seen) : seen[i] \in Range(columns)
    /\ \A i, j \in 1..Len(seen) :
           (i < j /\ seen[i] \in Range(columns) /\ seen[j] \in Range(columns)) =>
               IndexOf(columns, seen[i]) < IndexOf(columns, seen[j])

OutOfRangeCall ==
    /\ clast.op \in {"remove_card", "update_card", "get_card"}
    /\ (clast.index < 0 \/ clast.index > Len(clast.pre.cards) - 1)

\* C13: for an index outside 0..count-1, negative ones included, remove_card
\* and update_card return False, get_card returns None, and the records and
\* the column list are left as they were.
C13_OutOfRangeIsNoOp ==
    OutOfRangeCall =>
        /\ ~clast.ok
        /\ clast.op = "get_card" => clast.none
        /\ cards = clast.pre.cards
        /\ columns = clast.pre.columns

C13_Witness ==
    /\ clast.op = "remove_card"
    /\ clast.index = 0 - 1
    /\ Len(clast.pre.cards) = 2
    /\ ~clast.ok

\* C14: add_card followed by remove_card at the index of the added record
\* gives back the records there were before, each at its position; add_card
\* with no argument appends a record whose keys are the columns, all with "".
C14_AddThenRemove ==
    /\ added.phase = "removed" => cards = added.cards
    /\ (clast.op = "add_card" /\ ~clast.given) =>
           /\ Len(cards) = Len(clast.pre.cards) + 1
           /\ DictKeys(cards[Len(cards)]) = columns
           /\ \A i \in 1..Len(columns) : cards[Len(cards)][i][2] = Empty

C14_Witness ==
    /\ added.phase = "removed"
    /\ Len(cards) >= 1
    /\ clast.pre.cards # cards

\* the file a load_csv call was given
FileAt(path) == CHOOSE file \in CsvFiles : file.path = path

\* C18: a load_csv that returns False leaves the records, the column list and
\* the filepath as they were; one that returns True replaces the records with
\* the rows of the file, in file order, and sets the filepath.
C18_LoadCsvAllOrNothing ==
    clast.op = "load_csv" =>
        /\ ~clast.ok =>
               /\ cards = clast.pre.cards
               /\ columns = clast.pre.columns
               /\ filepath = clast.pre.filepath
        /\ clast.ok =>
               /\ filepath = clast.path
               /\ Len(cards) = Len(FileAt(clast.path).rows)
               /\ \A i \in 1..Len(cards) : \A n \in 1..Len(cards[i]) :
                      cards[i][n][2] = FileAt(clast.path).rows[i][n]

(* Properties of validation *)

Fields == {"IMSI", "ICCID", "Ki", "OPc", "ADM1"}

FieldOrder(field) ==
    CASE field = "IMSI" -> 1 [] field = "ICCID" -> 2 [] field = "Ki" -> 3
      [] field = "OPc" -> 4 [] OTHER -> 5

FieldText(field) ==
    CASE field = "IMSI" -> "IMSI must be 6-15 digits"
      [] field = "ICCID" -> "ICCID must be 10-20 digits"
      [] field = "Ki" -> "Ki must be 32 hex chars"
      [] field = "OPc" -> "OPc must be 32 hex chars"
      [] OTHER -> "ADM1 must be 8 chars"

FieldKey(field) ==
    CASE field = "IMSI" -> K_IMSI [] field = "ICCID" -> K_ICCID [] field = "Ki" -> K_Ki
      [] field = "OPc" -> K_OPc [] OTHER -> K_ADM1

AllDigits(t) == \A i \in 1..Len(t) : t[i] \in Digits

NoSpaces(t) == SelectSeq(t, LAMBDA c : c # " ")

Is32Hex(t) ==
    /\ Len(t) = 32
    /\ \A i \in 1..32 :
           t[i] \in Digits \cup {"a", "b", "c", "d", "e", "f"} \cup {"A", "B", "C", "D", "E", "F"}

\* the rule of a field as the specification words it; an absent field reads as ""
Violates(card, field) ==
    LET v == IF HasKey(card, FieldKey(field))
             THEN card[CHOOSE i \in 1..Len(card) : card[i][1] = FieldKey(field)][2]
             ELSE Empty
    IN
    /\ v # Empty
    /\ CASE field = "IMSI" -> ~AllDigits(v) \/ Len(v) < 6 \/ Len(v) > 15
         [] field = "ICCID" -> ~AllDigits(v) \/ Len(v) < 10 \/ Len(v) > 20
         [] field \in {"Ki", "OPc"} -> ~Is32Hex(NoSpaces(v))
         [] OTHER -> Len(v) # 8

Entries(errors, row, field) ==
    {n \in 1..Len(errors) : errors[n] = Defect(row, FieldText(field))}

\* C15: validation flags a field of a record exactly when the field is
\* non-empty and breaks its rule: IMSI all digits of length 6..15, ICCID all
\* digits of length 10..20, Ki and OPc 32 hex characters once spaces are
\* removed, ADM1 of length 8; absent and empty fields are never flagged.
C15_FlaggedIffViolated ==
    clast.op = "validate_all" =>
        \A row \in 1..Len(cards), field \in Fields :
            Entries(clast.errors, row, field) # {} <=> Violates(cards[row], field)

C15_Witness ==
    /\ clast.op = "validate_all"
    /\ Len(cards) = 2
    /\ cards[1] = RecordAllBad
    /\ cards[2] = RecordMixed
    /\ Len(clast.errors) = 9

\* C16: validate_all reports every violated (record, field) pair exactly once
\* and nothing else, ordered by row and then by field in the order IMSI, ICCID,
\* Ki, OPc, ADM1, with the record's 1-based position as row; it changes no record.
C16_OneEntryPerViolation ==
    clast.op = "validate_all" =>
        /\ \A row \in 1..Len(cards), field \in Fields :
               Cardinality(Entries(clast.errors, row, field)) =
                   IF Violates(cards[row], field) THEN 1 ELSE 0
        /\ \A n \in 1..Len(clast.errors) :
               \E row \in 1..Len(cards), field \in Fields :
                   n \in Entries(clast.errors, row, field)
        /\ \A n, m \in 1..Len(clast.errors) :
               n < m =>
                   \E f, g \in Fields :
                       /\ clast.errors[n].text = FieldText(f)
                       /\ clast.errors[m].text = FieldText(g)
                       /\ \/ clast.errors[n].row < clast.errors[m].row
                          \/ /\ clast.errors[n].row = clast.errors[m].row
                             /\ FieldOrder(f) < FieldOrder(g)
        /\ cards = clast.pre.cards

C16_Witness ==
    /\ clast.op = "validate_all"
    /\ cards = <<RecordClean, RecordShortKi, RecordBlank>>
    /\ clast.errors = <<Defect(2, "Ki must be 32 hex chars")>>

====
